---- MODULE Spec2Model ----
(***************************************************************************)
(* Taxaformer visualization service: the chart formatters of               *)
(* db/supabase_db.py (TaxaformerDB) behind the REST front ends             *)
(* backend/main_with_db.py and local_api.py, the upload endpoint           *)
(* POST /analyze and the end-to-end run of test_database.py.               *)
(*                                                                         *)
(* Strings are sequences of one-character strings, so that split, strip,   *)
(* lower and the code-point order of sorted() are computed, not assumed.   *)
(* A float is modelled exactly: a percentage as an integer number of       *)
(* hundredths, a Bray-Curtis quotient as a fraction or NaN.                *)
(***************************************************************************)
EXTENDS Integers, Sequences, FiniteSets, TLC

VARIABLES store, db, reachable, response, previous, requests

vars == <<store, db, reachable, response, previous, requests>>

(***************************************************************************)
(* Bounds of the model.                                                    *)
(***************************************************************************)
\* sequence records per stored analysis result
MaxSeqs == 3
\* entries of a comma-joined job_ids parameter
MaxIds == 3

(***************************************************************************)
(* Python str: characters, code points, comparison, lower, split, strip.   *)
(***************************************************************************)
UpperCase == <<"A","B","C","D","E","F","G","H","I","J","K","L","M",
               "N","O","P","Q","R","S","T","U","V","W","X","Y","Z">>

LowerCase == <<"a","b","c","d","e","f","g","h","i","j","k","l","m",
               "n","o","p","q","r","s","t","u","v","w","x","y","z">>

Whitespace == {" "}

IsUpper(c) == \E i \in 1..26 : UpperCase[i] = c

IsLower(c) == \E i \in 1..26 : LowerCase[i] = c

\* ord(c) for the characters the model uses
CodePoint(c) ==
    IF c = " " THEN 32
    ELSE IF c = ";" THEN 59
    ELSE IF c = "," THEN 44
    ELSE IF c = "." THEN 46
    ELSE IF IsUpper(c) THEN 64 + (CHOOSE i \in 1..26 : UpperCase[i] = c)
    ELSE 96 + (CHOOSE i \in 1..26 : LowerCase[i] = c)

\* a < b on str: lexicographic by code point, a proper prefix is smaller
RECURSIVE StrLess(_, _)
StrLess(a, b) ==
    IF b = <<>> THEN FALSE
    ELSE IF a = <<>> THEN TRUE
    ELSE IF CodePoint(Head(a)) # CodePoint(Head(b))
         THEN CodePoint(Head(a)) < CodePoint(Head(b))
         ELSE StrLess(Tail(a), Tail(b))

\* str.lower()
ToLower(s) ==
    [i \in 1..Len(s) |->
        IF IsUpper(s[i]) THEN LowerCase[CHOOSE k \in 1..26 : UpperCase[k] = s[i]]
        ELSE s[i]]

\* str.split(sep) for a one-character sep: always at least one segment
RECURSIVE Split(_, _)
Split(s, sep) ==
    IF \A i \in 1..Len(s) : s[i] # sep THEN <<s>>
    ELSE LET k == CHOOSE i \in 1..Len(s) : s[i] = sep /\ \A h \in 1..(i-1) : s[h] # sep
         IN  <<SubSeq(s, 1, k-1)>> \o Split(SubSeq(s, k+1, Len(s)), sep)

\* str.strip()
RECURSIVE Strip(_)
Strip(s) ==
    IF s = <<>> THEN s
    ELSE IF Head(s) \in Whitespace THEN Strip(Tail(s))
    ELSE IF s[Len(s)] \in Whitespace THEN Strip(SubSeq(s, 1, Len(s)-1))
    ELSE s

\* [p.strip() for p in taxonomy.split(";")]
ParseTaxonomy(taxonomy) ==
    LET segs == Split(taxonomy, ";")
    IN  [i \in 1..Len(segs) |-> Strip(segs[i])]

\* sorted(list(S)) for a set of str
RECURSIVE SortedList(_)
SortedList(S) ==
    IF S = {} THEN <<>>
    ELSE LET m == CHOOSE x \in S : \A y \in S \ {x} : StrLess(x, y)
         IN  <<m>> \o SortedList(S \ {m})

\* the index of x in the list xs (dict lookup by key), 0 when absent
IndexOf(xs, x) ==
    IF \E i \in 1..Len(xs) : xs[i] = x
    THEN CHOOSE i \in 1..Len(xs) : xs[i] = x /\ \A h \in 1..(i-1) : xs[h] # x
    ELSE 0

Abs(x) == IF x < 0 THEN -x ELSE x

RECURSIVE SumSeq(_)
SumSeq(xs) == IF xs = <<>> THEN 0 ELSE Head(xs) + SumSeq(Tail(xs))

SeqsUpTo(S, n) == UNION {[1..k -> S] : k \in 0..n}

Range(xs) == {xs[i] : i \in 1..Len(xs)}

(***************************************************************************)
(* String literals of the program.                                         *)
(***************************************************************************)
sUnknown == <<"U","n","k","n","o","w","n">>
sStart == <<"S","t","a","r","t">>
sLife == <<"L","i","f","e">>
sBacteria == <<"B","a","c","t","e","r","i","a">>
sEukaryota == <<"E","u","k","a","r","y","o","t","a">>

\* sep.join(labels)
RECURSIVE Join(_, _)
Join(labels, sep) ==
    IF labels = <<>> THEN <<>>
    ELSE IF Len(labels) = 1 THEN labels[1]
    ELSE labels[1] \o sep \o Join(Tail(labels), sep)

(***************************************************************************)
(* The store: table analysis_jobs, one row per job id.                     *)
(*   a row: filename, analysis_result (JSON null, or a dict whose          *)
(*   "sequences" is a list of records that may lack the "taxonomy" key)    *)
(***************************************************************************)
jobA == <<"a">>
jobB == <<"b">>

JobIds == {jobA, jobB}

NoRow == [present |-> FALSE]

SeqRecord(t) == [has_taxonomy |-> TRUE, taxonomy |-> t]

SeqNoTaxonomy == [has_taxonomy |-> FALSE, taxonomy |-> <<>>]

Row(f, seqs) == [present |-> TRUE, filename |-> f, null_result |-> FALSE, sequences |-> seqs]

RowNullResult(f) == [present |-> TRUE, filename |-> f, null_result |-> TRUE, sequences |-> <<>>]

\* the exceptions of a db call: the ValueError the formatters raise themselves
\* for a job id without a row, and those that come out of a library or the
\* interpreter
NotFoundError == "ValueError: No analysis found for job_id"
ConnectError == "httpx.ConnectError"
AttributeError == "AttributeError: 'NoneType' object has no attribute 'get'"
PCAValueError == "ValueError: sklearn PCA input validation"

\* self.client.table("analysis_jobs").select(...).eq("id", job_id).execute()
Execute(job_id) ==
    IF ~reachable THEN [raised |-> TRUE, exc |-> ConnectError, data |-> <<>>]
    ELSE IF job_id \in DOMAIN store /\ store[job_id].present
         THEN [raised |-> FALSE, exc |-> "", data |-> <<store[job_id]>>]
         ELSE [raised |-> FALSE, exc |-> "", data |-> <<>>]

\* seq.get("taxonomy", "Unknown")
TaxonomyOf(seq) == IF seq.has_taxonomy THEN seq.taxonomy ELSE sUnknown

Returned(v) == [raised |-> FALSE, exc |-> "", value |-> v]

Raised(e) == [raised |-> TRUE, exc |-> e, value |-> <<>>]

(***************************************************************************)
(* TaxaformerDB.get_hierarchical_data                                      *)
(***************************************************************************)
\* JSON null, and a JSON list
Null == [null |-> TRUE, items |-> <<>>]

List(xs) == [null |-> FALSE, items |-> xs]

\* InsertParts counting a lineage at its last label only
RECURSIVE InsertPartsLeafOnly(_, _)
InsertPartsLeafOnly(current, parts) ==
    LET part  == Head(parts)
        names == [i \in 1..Len(current) |-> current[i].name]
        found == IndexOf(names, part)
        cur1  == IF found = 0
                 THEN Append(current, [name |-> part, value |-> 0, children |-> <<>>])
                 ELSE current
        k     == IF found = 0 THEN Len(cur1) ELSE found
        node  == cur1[k]
    IN  [cur1 EXCEPT ![k] =
            IF Len(parts) > 1
            THEN [node EXCEPT !.children = InsertPartsLeafOnly(@, Tail(parts))]
            ELSE [node EXCEPT !.value = @ + 1]]

\* InsertParts counting a lineage only at the nodes it creates
RECURSIVE InsertPartsNewOnly(_, _)
InsertPartsNewOnly(current, parts) ==
    LET part  == Head(parts)
        names == [i \in 1..Len(current) |-> current[i].name]
        found == IndexOf(names, part)
        cur1  == IF found = 0
                 THEN Append(current, [name |-> part, value |-> 1, children |-> <<>>])
                 ELSE current
        k     == IF found = 0 THEN Len(cur1) ELSE found
    IN  [cur1 EXCEPT ![k] =
            IF Len(parts) > 1
            THEN [cur1[k] EXCEPT !.children = InsertPartsNewOnly(@, Tail(parts))]
            ELSE cur1[k]]

\* one lineage walked into the tree: `current` is the children dict of the
\* node reached so far (a dict keeps insertion order: a list of nodes)
RECURSIVE InsertParts(_, _)
InsertParts(current, parts) ==
    LET part  == Head(parts)
        names == [i \in 1..Len(current) |-> current[i].name]
        found == IndexOf(names, part)
        cur1  == IF found = 0
                 THEN Append(current, [name |-> part, value |-> 0, children |-> <<>>])
                 ELSE current
        k     == IF found = 0 THEN Len(cur1) ELSE found
        node  == [cur1[k] EXCEPT !.value = @ + 1]
    IN  [cur1 EXCEPT ![k] =
            IF Len(parts) > 1
            THEN [node EXCEPT !.children = InsertParts(@, Tail(parts))]
            ELSE node]

\* BuildTree skipping the records that have no "taxonomy" key
RECURSIVE BuildTreeSkipMissing(_, _)
BuildTreeSkipMissing(children, sequences) ==
    IF sequences = <<>> THEN children
    ELSE IF ~Head(sequences).has_taxonomy
    THEN BuildTreeSkipMissing(children, Tail(sequences))
    ELSE BuildTreeSkipMissing(
             InsertParts(children, ParseTaxonomy(TaxonomyOf(Head(sequences)))),
             Tail(sequences))

\* for seq in sequences: ... (tree["children"] after the loop)
RECURSIVE BuildTree(_, _)
BuildTree(children, sequences) ==
    IF sequences = <<>> THEN children
    ELSE BuildTree(InsertParts(children, ParseTaxonomy(TaxonomyOf(Head(sequences)))),
                   Tail(sequences))

\* dict_to_list reporting the children of every node as a list, empty for a
\* node without children
RECURSIVE dict_to_list_always_list(_)
dict_to_list_always_list(node) ==
    [name |-> node.name,
     value |-> node.value,
     children |-> List([i \in 1..Len(node.children) |->
                           dict_to_list_always_list(node.children[i])])]

\* dict_to_list(node): children is None unless the node has children
RECURSIVE dict_to_list(_)
dict_to_list(node) ==
    LET children == IF node.children # <<>>
                    THEN [i \in 1..Len(node.children) |-> dict_to_list(node.children[i])]
                    ELSE <<>>
    IN  [name |-> node.name,
         value |-> node.value,
         children |-> IF children # <<>> THEN List(children) ELSE Null]

\* hierarchy = {"name": "Life", "children": [...]}
Hierarchy(sequences) ==
    LET tree == BuildTree(<<>>, sequences)
    IN  [name |-> sLife,
         children |-> List([i \in 1..Len(tree) |-> dict_to_list(tree[i])])]

get_hierarchical_data(job_id) ==
    LET resp == Execute(job_id)
    IN  IF resp.raised THEN Raised(resp.exc)
        ELSE IF resp.data = <<>> THEN Raised(NotFoundError)
        ELSE IF resp.data[1].null_result THEN Raised(AttributeError)
        ELSE Returned(Hierarchy(resp.data[1].sequences))

(***************************************************************************)
(* TaxaformerDB.get_sankey_data                                            *)
(***************************************************************************)
\* ranks = ["Start", "Domain", "Phylum", "Class", "Order"]
SankeyRanks == << sStart,
                  <<"D","o","m","a","i","n">>,
                  <<"P","h","y","l","u","m">>,
                  <<"C","l","a","s","s">>,
                  <<"O","r","d","e","r">> >>

\* the label window of the flow: Start and four levels
SankeyLevels == 5

\* parts[i] if i < len(parts) else f"Unknown {ranks[i]}"   (i counts from 0)
SankeyLabel(parts, i) ==
    IF i < Len(parts) THEN parts[i + 1] ELSE sUnknown \o <<" ">> \o SankeyRanks[i + 1]

\* flows[(source, target)] += 1 on a defaultdict(int) that keeps insertion order
AddFlow(flows, source, target) ==
    LET keys  == [i \in 1..Len(flows) |-> <<flows[i].source, flows[i].target>>]
        found == IndexOf(keys, <<source, target>>)
    IN  IF found = 0
        THEN Append(flows, [source |-> source, target |-> target, value |-> 1])
        ELSE [flows EXCEPT ![found].value = @ + 1]

\* for i in range(max_levels - 1): ...   acc = [flows, nodes_set]
RECURSIVE SankeyEdges(_, _, _, _)
SankeyEdges(acc, parts, i, max_levels) ==
    IF i >= max_levels - 1 THEN acc
    ELSE LET source == SankeyLabel(parts, i)
             target == SankeyLabel(parts, i + 1)
         IN  SankeyEdges([flows |-> AddFlow(acc.flows, source, target),
                          nodes_set |-> acc.nodes_set \cup {source, target}],
                         parts, i + 1, max_levels)

\* SankeyFlows walking the whole lineage, without the limit of five levels
RECURSIVE SankeyFlowsWholeLineage(_, _)
SankeyFlowsWholeLineage(acc, sequences) ==
    IF sequences = <<>> THEN acc
    ELSE LET parts == <<sStart>> \o ParseTaxonomy(TaxonomyOf(Head(sequences)))
         IN  SankeyFlowsWholeLineage(SankeyEdges(acc, parts, 0, Len(parts)), Tail(sequences))

\* for seq in sequences: ...
RECURSIVE SankeyFlows(_, _)
SankeyFlows(acc, sequences) ==
    IF sequences = <<>> THEN acc
    ELSE LET parts == <<sStart>> \o ParseTaxonomy(TaxonomyOf(Head(sequences)))
             max_levels == IF Len(parts) < SankeyLevels THEN Len(parts) ELSE SankeyLevels
         IN  SankeyFlows(SankeyEdges(acc, parts, 0, max_levels), Tail(sequences))

\* NodesList enumerating "Start" first and the other labels after it
NodesListStartFirst(nodes_set) == <<sStart>> \o SortedList(nodes_set \ {sStart})

\* nodes_list = sorted(list(nodes_set)); node_indices = {name: idx ...}
NodesList(nodes_set) == SortedList(nodes_set)

Sankey(sequences) ==
    LET acc          == SankeyFlows([flows |-> <<>>, nodes_set |-> {sStart}], sequences)
        nodes_list   == NodesList(acc.nodes_set)
        node_indices == [name \in acc.nodes_set |-> IndexOf(nodes_list, name) - 1]
    IN  [nodes |-> [i \in 1..Len(nodes_list) |-> [id |-> i - 1, name |-> nodes_list[i]]],
         links |-> [i \in 1..Len(acc.flows) |->
                      [source |-> node_indices[acc.flows[i].source],
                       target |-> node_indices[acc.flows[i].target],
                       value  |-> acc.flows[i].value]]]

get_sankey_data(job_id) ==
    LET resp == Execute(job_id)
    IN  IF resp.raised THEN Raised(resp.exc)
        ELSE IF resp.data = <<>> THEN Raised(NotFoundError)
        ELSE IF resp.data[1].null_result THEN Raised(AttributeError)
        ELSE Returned(Sankey(resp.data[1].sequences))

(***************************************************************************)
(* TaxaformerDB.get_taxonomic_composition                                  *)
(***************************************************************************)
\* the keys of rank_index, in the order of their values 0..6
RankNames == << <<"d","o","m","a","i","n">>,
                <<"p","h","y","l","u","m">>,
                <<"c","l","a","s","s">>,
                <<"o","r","d","e","r">>,
                <<"f","a","m","i","l","y">>,
                <<"g","e","n","u","s">>,
                <<"s","p","e","c","i","e","s">> >>

\* rank_index of get_taxonomic_composition: all seven names
CompositionRanks == RankNames

\* rank_index of get_heatmap_data: domain .. genus
HeatmapRanks == SubSeq(RankNames, 1, 6)

\* rank_index.get(name, default)
RankIndexGet(rank_index, name, default) ==
    IF IndexOf(rank_index, name) = 0 THEN default ELSE IndexOf(rank_index, name) - 1

\* CompositionIdx numbering the ranks from one (domain = 1 .. species = 7)
CompositionIdxFromOne(rank) == RankIndexGet(CompositionRanks, ToLower(rank), 1) + 1

\* idx = rank_index.get(rank.lower(), 1)
CompositionIdx(rank) == RankIndexGet(CompositionRanks, ToLower(rank), 1)

\* idx = rank_index.get(rank.lower(), 2)
HeatmapIdx(rank) == RankIndexGet(HeatmapRanks, ToLower(rank), 2)

\* parts[idx] if idx < len(parts) else "Unknown"
TaxonAt(parts, idx) == IF idx < Len(parts) THEN parts[idx + 1] ELSE sUnknown

\* counter[key] += 1 on a Counter, which keeps insertion order
CounterAdd(counter, key) ==
    LET keys  == [i \in 1..Len(counter) |-> counter[i].name]
        found == IndexOf(keys, key)
    IN  IF found = 0 THEN Append(counter, [name |-> key, value |-> 1])
        ELSE [counter EXCEPT ![found].value = @ + 1]

\* counter.get(key, 0)
CounterGet(counter, key) ==
    LET keys  == [i \in 1..Len(counter) |-> counter[i].name]
        found == IndexOf(keys, key)
    IN  IF found = 0 THEN 0 ELSE counter[found].value

\* for seq in sequences: ... rank_counts[taxon] += 1
RECURSIVE CountByRank(_, _, _)
CountByRank(counter, sequences, idx) ==
    IF sequences = <<>> THEN counter
    ELSE CountByRank(
             CounterAdd(counter, TaxonAt(ParseTaxonomy(TaxonomyOf(Head(sequences))), idx)),
             Tail(sequences), idx)

\* MostCommon leaving the counter in insertion order
MostCommonUnsorted(counter) == counter

\* Counter.most_common(): sorted by count, largest first, stable
RECURSIVE MostCommon(_)
MostCommon(counter) ==
    IF counter = <<>> THEN <<>>
    ELSE LET m == CHOOSE i \in 1..Len(counter) :
                     /\ \A h \in 1..Len(counter) : counter[h].value <= counter[i].value
                     /\ \A h \in 1..(i-1) : counter[h].value < counter[i].value
         IN  <<counter[m]>> \o
             MostCommon(SubSeq(counter, 1, m-1) \o SubSeq(counter, m+1, Len(counter)))

\* Percentage cutting the digits after the second decimal
PercentageTruncated(count, total) == (count * 10000) \div total

\* round((count / total) * 100, 2), in hundredths: to the nearest hundredth,
\* an exact tie to the even one (no tie arises for total < 32)
Percentage(count, total) ==
    LET n == count * 10000
        q == n \div total
        r == n % total
    IN  IF 2 * r < total THEN q
        ELSE IF 2 * r > total THEN q + 1
        ELSE IF q % 2 = 0 THEN q ELSE q + 1

Palette == << "#22D3EE", "#10B981", "#F59E0B", "#EC4899", "#A78BFA",
              "#3B82F6", "#EF4444", "#8B5CF6", "#14B8A6", "#F97316",
              "#06B6D4", "#84CC16", "#F43F5E", "#6366F1", "#64748B" >>

\* while len(colors) < count: colors.extend(colors)
RECURSIVE ExtendColors(_, _)
ExtendColors(colors, count) ==
    IF Len(colors) < count THEN ExtendColors(colors \o colors, count) ELSE colors

generate_colors(count) == SubSeq(ExtendColors(Palette, count), 1, count)

Composition(sequences, rank) ==
    LET rank_counts == CountByRank(<<>>, sequences, CompositionIdx(rank))
        total       == SumSeq([i \in 1..Len(rank_counts) |-> rank_counts[i].value])
        colors      == generate_colors(Len(rank_counts))
        ordered     == MostCommon(rank_counts)
    IN  [i \in 1..Len(ordered) |->
            [name |-> ordered[i].name,
             value |-> ordered[i].value,
             percentage |-> Percentage(ordered[i].value, total),
             color |-> colors[i]]]

\* get_taxonomic_composition dividing by the total before the loop over the
\* counted labels, which raises for a job without sequence records
get_taxonomic_composition_eager(job_id, rank) ==
    LET resp == Execute(job_id)
    IN  IF resp.raised THEN Raised(resp.exc)
        ELSE IF resp.data = <<>> THEN Raised(NotFoundError)
        ELSE IF resp.data[1].null_result THEN Raised(AttributeError)
        ELSE IF resp.data[1].sequences = <<>>
             THEN Raised("ZeroDivisionError: division by zero")
        ELSE Returned(Composition(resp.data[1].sequences, rank))

get_taxonomic_composition(job_id, rank) ==
    LET resp == Execute(job_id)
    IN  IF resp.raised THEN Raised(resp.exc)
        ELSE IF resp.data = <<>> THEN Raised(NotFoundError)
        ELSE IF resp.data[1].null_result THEN Raised(AttributeError)
        ELSE Returned(Composition(resp.data[1].sequences, rank))

(***************************************************************************)
(* TaxaformerDB.get_heatmap_data                                           *)
(***************************************************************************)
\* d[key] = val on a dict
DictSet(d, key, val) ==
    LET keys  == [i \in 1..Len(d) |-> d[i].key]
        found == IndexOf(keys, key)
    IN  IF found = 0 THEN Append(d, [key |-> key, val |-> val])
        ELSE [d EXCEPT ![found].val = val]

\* d[key]
DictGet(d, key) ==
    LET keys == [i \in 1..Len(d) |-> d[i].key]
    IN  d[IndexOf(keys, key)].val

\* for job_id in job_ids: ...   acc = [raised, exc, samples, taxa,
\* sample_taxa_counts]; a job_id without a row is skipped
RECURSIVE HeatmapCollect(_, _, _)
HeatmapCollect(acc, job_ids, rank) ==
    IF job_ids = <<>> THEN acc
    ELSE LET resp == Execute(Head(job_ids))
         IN  IF resp.raised THEN [acc EXCEPT !.raised = TRUE, !.exc = resp.exc]
             ELSE IF resp.data = <<>> THEN HeatmapCollect(acc, Tail(job_ids), rank)
             ELSE IF resp.data[1].null_result
                  THEN [acc EXCEPT !.raised = TRUE, !.exc = AttributeError]
             ELSE LET job         == resp.data[1]
                      sample_name == job.filename
                      taxa_counts == CountByRank(<<>>, job.sequences, HeatmapIdx(rank))
                  IN  HeatmapCollect(
                          [raised |-> FALSE, exc |-> "",
                           samples |-> Append(acc.samples, sample_name),
                           taxa |-> acc.taxa \cup
                                    {taxa_counts[i].name : i \in 1..Len(taxa_counts)},
                           sample_taxa_counts |->
                               DictSet(acc.sample_taxa_counts, sample_name, taxa_counts)],
                          Tail(job_ids), rank)

get_heatmap_data(job_ids, rank) ==
    LET acc  == HeatmapCollect([raised |-> FALSE, exc |-> "", samples |-> <<>>,
                                taxa |-> {}, sample_taxa_counts |-> <<>>],
                               job_ids, rank)
        taxa == SortedList(acc.taxa)
    IN  IF acc.raised THEN Raised(acc.exc)
        ELSE Returned(
               [samples |-> acc.samples,
                taxa |-> taxa,
                matrix |-> [i \in 1..Len(acc.samples) |->
                              [t \in 1..Len(taxa) |->
                                  CounterGet(DictGet(acc.sample_taxa_counts, acc.samples[i]),
                                             taxa[t])]]])

(***************************************************************************)
(* TaxaformerDB.calculate_beta_diversity                                   *)
(***************************************************************************)
\* a float64: NaN, or the exact value num/den (den > 0)
NaN == [nan |-> TRUE, num |-> 0, den |-> 0]

Frac(n, d) == [nan |-> FALSE, num |-> n, den |-> d]

\* x == y on floats: a NaN equals nothing, itself included
FloatEq(x, y) == ~x.nan /\ ~y.nan /\ x.num * y.den = y.num * x.den

\* x <= y on floats: false when either is NaN
FloatLeq(x, y) == ~x.nan /\ ~y.nan /\ x.num * y.den <= y.num * x.den

\* 1 - x
OneMinus(x) == IF x.nan THEN NaN ELSE Frac(x.den - x.num, x.den)

\* for seq in sequences: taxa_counts[taxonomy] += 1   (the whole string)
RECURSIVE CountTaxonomies(_, _)
CountTaxonomies(counter, sequences) ==
    IF sequences = <<>> THEN counter
    ELSE CountTaxonomies(CounterAdd(counter, TaxonomyOf(Head(sequences))), Tail(sequences))

\* for job_id in job_ids: ...   acc = [raised, exc, sample_names,
\* abundance_vectors, all_taxa]; a job_id without a row is skipped
RECURSIVE DiversityCollect(_, _)
DiversityCollect(acc, job_ids) ==
    IF job_ids = <<>> THEN acc
    ELSE LET resp == Execute(Head(job_ids))
         IN  IF resp.raised THEN [acc EXCEPT !.raised = TRUE, !.exc = resp.exc]
             ELSE IF resp.data = <<>> THEN DiversityCollect(acc, Tail(job_ids))
             ELSE IF resp.data[1].null_result
                  THEN [acc EXCEPT !.raised = TRUE, !.exc = AttributeError]
             ELSE LET job         == resp.data[1]
                      taxa_counts == CountTaxonomies(<<>>, job.sequences)
                  IN  DiversityCollect(
                          [raised |-> FALSE, exc |-> "",
                           sample_names |-> Append(acc.sample_names, job.filename),
                           abundance_vectors |-> Append(acc.abundance_vectors, taxa_counts),
                           all_taxa |-> acc.all_taxa \cup
                                        {taxa_counts[i].name : i \in 1..Len(taxa_counts)}],
                          Tail(job_ids))

\* scipy.spatial.distance.braycurtis(u, v): sum|u - v| / sum|u + v|, which is
\* 0.0/0.0 = NaN (numpy warns, it does not raise) when both vectors are zero
braycurtis(u, v) ==
    LET l1_diff == SumSeq([k \in 1..Len(u) |-> Abs(u[k] - v[k])])
        l1_sum  == SumSeq([k \in 1..Len(u) |-> Abs(u[k] + v[k])])
    IN  IF l1_sum = 0 THEN NaN ELSE Frac(l1_diff, l1_sum)

\* the components of the ordination
PCAComponents == 2

\* PCA(n_components=2).fit_transform(matrix) validates its input and raises
\* ValueError for an array that is not 2-D (no sample), that has no feature,
\* or with n_components > min(n_samples, n_features)
PCAFits(n_samples, n_features) ==
    /\ n_samples >= 1
    /\ n_features >= 1
    /\ PCAComponents <= (IF n_samples < n_features THEN n_samples ELSE n_features)

\* explained_variance_ratio_ = explained_variance_ / total_var: NaN when the
\* rows are all equal (total variance 0), finite otherwise; the model keeps of
\* the ordination (pcoa, explained_variance) only whether it is NaN
ExplainedVarianceIsNaN(matrix) == \A i, k \in 1..Len(matrix) : matrix[i] = matrix[k]

calculate_beta_diversity(job_ids) ==
    LET acc       == DiversityCollect([raised |-> FALSE, exc |-> "", sample_names |-> <<>>,
                                       abundance_vectors |-> <<>>, all_taxa |-> {}],
                                      job_ids)
        all_taxa  == SortedList(acc.all_taxa)
        matrix    == [i \in 1..Len(acc.abundance_vectors) |->
                        [t \in 1..Len(all_taxa) |->
                            CounterGet(acc.abundance_vectors[i], all_taxa[t])]]
        n_samples == Len(acc.sample_names)
        dissimilarity_matrix ==
            [i \in 1..n_samples |->
                [k \in 1..n_samples |->
                    IF i # k THEN braycurtis(matrix[i], matrix[k]) ELSE Frac(0, 1)]]
    IN  IF acc.raised THEN Raised(acc.exc)
        ELSE IF ~PCAFits(n_samples, Len(all_taxa)) THEN Raised(PCAValueError)
        ELSE Returned(
               [samples |-> acc.sample_names,
                dissimilarity_matrix |-> dissimilarity_matrix,
                similarity_matrix |->
                    [i \in 1..n_samples |->
                        [k \in 1..n_samples |-> OneMinus(dissimilarity_matrix[i][k])]],
                explained_variance |->
                    [c \in 1..PCAComponents |-> [nan |-> ExplainedVarianceIsNaN(matrix)]]])

\* whether json.dumps(allow_nan=False) renders the diversity result
DiversityJsonOk(result) ==
    \/ result.raised
    \/ /\ \A c \in 1..PCAComponents : ~result.value.explained_variance[c].nan
       /\ \A i, k \in 1..Len(result.value.samples) :
             ~result.value.dissimilarity_matrix[i][k].nan

(***************************************************************************)
(* TaxaformerDB.get_job_by_id                                              *)
(***************************************************************************)
\* the row, or None for a job id without one
get_job_by_id(job_id) ==
    LET resp == Execute(job_id)
    IN  IF resp.raised THEN Raised(resp.exc)
        ELSE IF resp.data # <<>> THEN Returned([none |-> FALSE, job |-> resp.data[1]])
        ELSE Returned([none |-> TRUE, job |-> NoRow])

(***************************************************************************)
(* The REST front ends: backend/main_with_db.py and local_api.py.          *)
(***************************************************************************)
FrontEnds == {"main_with_db", "local_api"}

Idle == [kind |-> "idle"]

NotCalled == [raised |-> FALSE, exc |-> "", value |-> <<>>]

\* the requests a front end has accepted and not yet answered completely:
\* two connections of the event loop
Slots == {1, 2}

NoRequests == [s \in Slots |-> Idle]

\* what a route handler answers for the outcome `result` of its db call:
\* main_with_db raises HTTPException(503) when its module-level db is None;
\* both front ends turn any exception of the call into HTTPException(500);
\* the return value is the body of a 200, which the framework renders with
\* json.dumps(allow_nan=False): a NaN in it ends the request with a 500
Respond(fe, endpoint, job_ids, rank, result, json_ok) ==
    LET request == [kind |-> "done", frontend |-> fe, endpoint |-> endpoint,
                    job_ids |-> job_ids, rank |-> rank]
        answer  == IF fe = "main_with_db" /\ db = "none"
                   THEN [called |-> FALSE, result |-> NotCalled, status |-> 503,
                         error_from |-> "handler"]
                   ELSE IF result.raised
                   THEN [called |-> TRUE, result |-> result, status |-> 500,
                         error_from |-> "handler"]
                   ELSE IF ~json_ok
                   THEN [called |-> TRUE, result |-> result, status |-> 500,
                         error_from |-> "framework"]
                   ELSE [called |-> TRUE, result |-> result, status |-> 200,
                         error_from |-> ""]
    IN  request @@ answer

\* why the answered request could not be served, from the state it ran in:
\* the store could not be asked, the job id has no row, or the row's
\* analysis_result is null so that the formatter fails computing
Cause ==
    LET id == response.job_ids[1]
    IN  IF (response.frontend = "main_with_db" /\ db = "none") \/ ~reachable
        THEN "store_unavailable"
        ELSE IF ~(id \in DOMAIN store /\ store[id].present) THEN "not_found"
        ELSE IF store[id].null_result /\ response.endpoint # "job" THEN "computation_failure"
        ELSE "none"

\* GET /visualizations/hierarchy/{job_id}
get_hierarchy(fe, job_id) ==
    /\ response = Idle
    /\ response' = Respond(fe, "hierarchy", <<job_id>>, <<>>, get_hierarchical_data(job_id), TRUE)
    /\ UNCHANGED <<store, db, reachable, previous, requests>>

\* GET /visualizations/sankey/{job_id}
get_sankey(fe, job_id) ==
    /\ response = Idle
    /\ response' = Respond(fe, "sankey", <<job_id>>, <<>>, get_sankey_data(job_id), TRUE)
    /\ UNCHANGED <<store, db, reachable, previous, requests>>

\* GET /visualizations/composition/{job_id}?rank=
get_composition(fe, job_id, rank) ==
    /\ response = Idle
    /\ response' = Respond(fe, "composition", <<job_id>>, rank,
                            get_taxonomic_composition(job_id, rank), TRUE)
    /\ UNCHANGED <<store, db, reachable, previous, requests>>

\* GET /visualizations/heatmap?job_ids=&rank=     ids = job_ids.split(",")
get_heatmap(fe, job_ids, rank) ==
    LET ids == Split(job_ids, ",")
    IN  /\ response = Idle
        /\ response' = Respond(fe, "heatmap", ids, rank, get_heatmap_data(ids, rank), TRUE)
        /\ UNCHANGED <<store, db, reachable, previous, requests>>

\* GET /visualizations/diversity?job_ids=     ids = job_ids.split(",")
get_diversity(fe, job_ids) ==
    LET ids    == Split(job_ids, ",")
        result == calculate_beta_diversity(ids)
    IN  /\ response = Idle
        /\ response' = Respond(fe, "diversity", ids, <<>>, result, DiversityJsonOk(result))
        /\ UNCHANGED <<store, db, reachable, previous, requests>>

\* GET /jobs/{job_id}: HTTPException(404) when get_job_by_id returns None,
\* re-raised by `except HTTPException: raise`
get_job(fe, job_id) ==
    LET result == get_job_by_id(job_id)
        answer == Respond(fe, "job", <<job_id>>, <<>>, result, TRUE)
    IN  /\ response = Idle
        /\ response' = IF answer.status = 200 /\ result.value.none
                        THEN [answer EXCEPT !.status = 404, !.error_from = "handler"]
                        ELSE answer
        /\ UNCHANGED <<store, db, reachable, previous, requests>>

\* the store stops answering: every execute() raises
StoreOutage ==
    /\ response = Idle
    /\ reachable
    /\ reachable' = FALSE
    /\ UNCHANGED <<store, db, response, previous, requests>>

\* the store answers again
StoreRecovery ==
    /\ response = Idle
    /\ ~reachable
    /\ reachable' = TRUE
    /\ UNCHANGED <<store, db, response, previous, requests>>

\* the response is sent, and remembered as the previous answer
DeliverAndRemember ==
    /\ response # Idle
    /\ previous' = [response EXCEPT !.result = NotCalled] @@ [cause |-> Cause]
    /\ response' = Idle
    /\ UNCHANGED <<store, db, reachable, requests>>

\* the response is sent and the handler is done
Deliver ==
    /\ response # Idle
    /\ response' = Idle
    /\ UNCHANGED <<store, db, reachable, previous, requests>>

(***************************************************************************)
(* Specification of the tree and flow formatters: one stored job whose     *)
(* lineages include a proper prefix of another, padded segments, a record  *)
(* without taxonomy and a lineage deeper than the flow window.             *)
(***************************************************************************)
sFile == <<"s",".","f","a">>

TaxHier == { SeqRecord(sBacteria),
             SeqRecord(sEukaryota),
             SeqRecord(sBacteria \o <<";"," ","a"," ">>),
             SeqRecord(sEukaryota \o <<";","a">>),
             SeqRecord(sBacteria \o <<";","a",";","b",";","c",";","d",";","e">>),
             SeqNoTaxonomy }

RequestIds == JobIds

InitHier ==
    /\ \E seqs \in SeqsUpTo(TaxHier, MaxSeqs) :
          store = [j \in JobIds |-> IF j = jobA THEN Row(sFile, seqs) ELSE NoRow]
    /\ db = "connected"
    /\ reachable = TRUE
    /\ response = Idle
    /\ previous = Idle
    /\ requests = NoRequests

NextHier ==
    \/ \E fe \in FrontEnds, j \in RequestIds : get_hierarchy(fe, j)
    \/ \E fe \in FrontEnds, j \in RequestIds : get_sankey(fe, j)
    \/ Deliver

SpecHier == InitHier /\ [][NextHier]_vars

(***************************************************************************)
(* Properties of the hierarchy and of the flow diagram.                    *)
(***************************************************************************)
\* the db call of the answered request returned a value
FunctionReturned(endpoint) ==
    /\ response.kind = "done"
    /\ response.endpoint = endpoint
    /\ response.called
    /\ ~response.result.raised

HierarchyReturned == FunctionReturned("hierarchy")

SankeyReturned == FunctionReturned("sankey")

\* the sequence records the answered request read
RequestedSequences == store[response.job_ids[1]].sequences

\* the parsed lineages of the answered request
RequestedLineages ==
    [i \in 1..Len(RequestedSequences) |-> ParseTaxonomy(TaxonomyOf(RequestedSequences[i]))]

\* every node below `node`, with the label path that leads to it
RECURSIVE NodesBelow(_, _)
NodesBelow(node, prefix) ==
    LET path == Append(prefix, node.name)
    IN  {[path |-> path, node |-> node]} \cup
        UNION {NodesBelow(node.children.items[i], path) :
                 i \in 1..Len(node.children.items)}

\* the nodes of a returned hierarchy, the root "Life" excluded
HierarchyNodes(h) ==
    UNION {NodesBelow(h.children.items[i], <<>>) : i \in 1..Len(h.children.items)}

ChildrenSum(node) ==
    SumSeq([i \in 1..Len(node.children.items) |-> node.children.items[i].value])

\* C1 as stated: every node that has children has a value equal to the sum
\* of the values of its direct children.
C1_ValueIsSumOfChildren ==
    HierarchyReturned =>
        \A e \in HierarchyNodes(response.result.value) :
            ~e.node.children.null => e.node.value = ChildrenSum(e.node)

\* C1 amended: every node that has children has a value equal to the sum of
\* the values of its direct children plus the number of stored lineages that
\* end exactly at that node (so the two are equal when no lineage is a
\* proper prefix ending there, and the value is never below the sum).
C1_ValueIsSumPlusEndingHere ==
    HierarchyReturned =>
        \A e \in HierarchyNodes(response.result.value) :
            ~e.node.children.null =>
                e.node.value = ChildrenSum(e.node)
                    + Cardinality({i \in 1..Len(RequestedLineages) :
                                      RequestedLineages[i] = e.path})

\* C1 witness: a returned hierarchy with a node whose children sum to less
\* than its value, because a stored lineage ends at that node.
C1_Witness ==
    /\ HierarchyReturned
    /\ \E e \in HierarchyNodes(response.result.value) :
          /\ ~e.node.children.null
          /\ e.node.value > ChildrenSum(e.node)
          /\ \E i \in 1..Len(RequestedLineages) : RequestedLineages[i] = e.path

NodeNames(nodes) == {nodes[i].name : i \in 1..Len(nodes)}

NodeId(nodes, name) == nodes[CHOOSE i \in 1..Len(nodes) : nodes[i].name = name].id

\* C3 as stated: the ID of a node is the sorted rank of its label, and for
\* the labels Start, Bacteria, Eukaryota the IDs are 0, 1 and 2.
C3_StartBacteriaEukaryota ==
    SankeyReturned =>
        LET nodes == response.result.value.nodes
        IN  /\ \A i \in 1..Len(nodes) :
                  nodes[i].id = Cardinality({m \in NodeNames(nodes) : StrLess(m, nodes[i].name)})
            /\ NodeNames(nodes) = {sStart, sBacteria, sEukaryota} =>
                  /\ NodeId(nodes, sStart) = 0
                  /\ NodeId(nodes, sBacteria) = 1
                  /\ NodeId(nodes, sEukaryota) = 2

\* C3 amended: the ID of a node is the rank of its label among all distinct
\* labels ("Start" included) in sorted order, which is code-point order, so
\* the IDs depend on the label set alone; for the labels Start, Bacteria,
\* Eukaryota the IDs are 0 for Bacteria, 1 for Eukaryota and 2 for Start.
C3_SortedRankIds ==
    SankeyReturned =>
        LET nodes == response.result.value.nodes
        IN  /\ Cardinality(NodeNames(nodes)) = Len(nodes)
            /\ sStart \in NodeNames(nodes)
            /\ \A i \in 1..Len(nodes) :
                  nodes[i].id = Cardinality({m \in NodeNames(nodes) : StrLess(m, nodes[i].name)})
            /\ NodeNames(nodes) = {sStart, sBacteria, sEukaryota} =>
                  /\ NodeId(nodes, sBacteria) = 0
                  /\ NodeId(nodes, sEukaryota) = 1
                  /\ NodeId(nodes, sStart) = 2

\* C3 witness: a flow diagram returned with exactly the labels Start,
\* Bacteria and Eukaryota.
C3_Witness ==
    /\ SankeyReturned
    /\ NodeNames(response.result.value.nodes) = {sStart, sBacteria, sEukaryota}

(***************************************************************************)
(* Specification of the rank aggregation: one stored job whose lineages    *)
(* reach from one label to all seven ranks; the rank parameter is each     *)
(* canonical name in lower case, capitalised and in upper case, and a      *)
(* name that is no rank.                                                   *)
(***************************************************************************)
ToUpper(s) ==
    [i \in 1..Len(s) |->
        IF IsLower(s[i]) THEN UpperCase[CHOOSE k \in 1..26 : LowerCase[k] = s[i]]
        ELSE s[i]]

Capitalize(s) == ToUpper(SubSeq(s, 1, 1)) \o SubSeq(s, 2, Len(s))

sKingdom == <<"k","i","n","g","d","o","m">>

\* the spellings of the k-th canonical rank name that are requested
Spellings(k) == {RankNames[k], ToUpper(RankNames[k])} \cup
                (IF k = 2 THEN {Capitalize(RankNames[k])} ELSE {})

CanonicalRankInputs == UNION {Spellings(k) : k \in 1..7}

RankInputs == CanonicalRankInputs \cup {sKingdom}

TaxRank == { SeqRecord(<<"d",";","p",";","c",";","o",";","f",";","g",";","s">>),
             SeqRecord(<<"d",";","q",";","k",";","o",";","f",";","h",";","t">>),
             SeqRecord(<<"d",";"," ","q"," ",";","c">>),
             SeqRecord(<<"e">>),
             SeqNoTaxonomy }

\* the job_ids parameters of the heatmap requests
RankIdParams == { jobA, jobA \o <<",">> \o jobB, jobB \o <<",">> \o jobA \o <<",">> \o jobA }

InitRank ==
    /\ \E seqs \in SeqsUpTo(TaxRank, MaxSeqs) :
          store = [j \in JobIds |-> IF j = jobA THEN Row(sFile, seqs) ELSE NoRow]
    /\ db = "connected"
    /\ reachable = TRUE
    /\ response = Idle
    /\ previous = Idle
    /\ requests = NoRequests

NextRank ==
    \/ \E fe \in FrontEnds, j \in RequestIds, rank \in RankInputs : get_composition(fe, j, rank)
    \/ \E fe \in FrontEnds, ids \in RankIdParams, rank \in RankInputs : get_heatmap(fe, ids, rank)
    \/ Deliver

SpecRank == InitRank /\ [][NextRank]_vars

(***************************************************************************)
(* Properties of the rank aggregation.                                     *)
(***************************************************************************)
CompositionReturned == FunctionReturned("composition")

HeatmapReturned == FunctionReturned("heatmap")

\* the positional index of a canonical rank name, whatever its letter case
CanonicalIndex(rank) == (CHOOSE k \in 1..7 : rank \in Spellings(k)) - 1

\* the label of a parsed lineage at index idx, "Unknown" exactly when the
\* lineage has no label there
ExpectedTaxon(parts, idx) == IF Len(parts) >= idx + 1 THEN parts[idx + 1] ELSE sUnknown

\* how many of the sequence records carry `label` at index idx
ExpectedCount(sequences, idx, label) ==
    Cardinality({i \in 1..Len(sequences) :
        ExpectedTaxon(ParseTaxonomy(TaxonomyOf(sequences[i])), idx) = label})

ExpectedLabels(sequences, idx) ==
    {ExpectedTaxon(ParseTaxonomy(TaxonomyOf(sequences[i])), idx) : i \in 1..Len(sequences)}

\* the job ids of the answered request that have a row, in request order
ResolvedIds == SelectSeq(response.job_ids, LAMBDA j : j \in DOMAIN store /\ store[j].present)

CompositionCountsAt(idx) ==
    LET body == response.result.value
    IN  /\ {body[i].name : i \in 1..Len(body)} = ExpectedLabels(RequestedSequences, idx)
        /\ \A i \in 1..Len(body) :
              body[i].value = ExpectedCount(RequestedSequences, idx, body[i].name)

HeatmapCountsAt(idx) ==
    LET body == response.result.value
    IN  /\ Len(body.matrix) = Len(ResolvedIds)
        /\ Range(body.taxa) =
              UNION {ExpectedLabels(store[ResolvedIds[i]].sequences, idx) :
                       i \in 1..Len(ResolvedIds)}
        /\ \A i \in 1..Len(ResolvedIds) : \A t \in 1..Len(body.taxa) :
              body.matrix[i][t] =
                  ExpectedCount(store[ResolvedIds[i]].sequences, idx, body.taxa[t])

\* C4 as stated: for each of the seven canonical rank names, in any letter
\* case, get_taxonomic_composition and get_heatmap_data both count, for
\* every sequence, the label at the rank's positional index (domain = 0 ..
\* species = 6), "Unknown" exactly when the lineage is too short.
C4_BothCountAtCanonicalIndex ==
    /\ (CompositionReturned /\ response.rank \in CanonicalRankInputs)
          => CompositionCountsAt(CanonicalIndex(response.rank))
    /\ (HeatmapReturned /\ response.rank \in CanonicalRankInputs)
          => HeatmapCountsAt(CanonicalIndex(response.rank))

\* C5: the composition list is ordered by non-increasing count, each distinct
\* label at the chosen rank appears exactly once, and the values sum to the
\* number of sequence records of the job.
C5_DescendingDistinctComplete ==
    CompositionReturned =>
        LET body == response.result.value
            idx  == CompositionIdx(response.rank)
        IN  /\ \A i \in 1..(Len(body) - 1) : body[i].value >= body[i + 1].value
            /\ \A i, k \in 1..Len(body) : body[i].name = body[k].name => i = k
            /\ {body[i].name : i \in 1..Len(body)} = ExpectedLabels(RequestedSequences, idx)
            /\ SumSeq([i \in 1..Len(body) |-> body[i].value]) = Len(RequestedSequences)

\* C5 witness: a composition whose most frequent label is not the label of
\* the first record, so that the order is the work of the sort.
C5_Witness ==
    /\ CompositionReturned
    /\ Len(response.result.value) >= 2
    /\ response.result.value[1].value > response.result.value[2].value
    /\ response.result.value[1].name #
          TaxonAt(ParseTaxonomy(TaxonomyOf(RequestedSequences[1])),
                  CompositionIdx(response.rank))

\* C6: for a job with at least one sequence record every percentage is
\* count/total*100 rounded to two decimals (within half a hundredth of the
\* exact quotient), and the percentages sum to 100 within 0.005 times the
\* number of entries.  Percentages are in hundredths.
C6_PercentagesRounded ==
    (CompositionReturned /\ Len(RequestedSequences) >= 1) =>
        LET body  == response.result.value
            total == Len(RequestedSequences)
        IN  /\ \A i \in 1..Len(body) :
                  2 * Abs(body[i].percentage * total - body[i].value * 10000) <= total
            /\ 2 * Abs(SumSeq([i \in 1..Len(body) |-> body[i].percentage]) - 10000)
                  <= Len(body)

\* C6 witness: a composition of three records in thirds, 66.67 and 33.33,
\* where rounding moves both the entries and their sum.
C6_Witness ==
    /\ CompositionReturned
    /\ Len(RequestedSequences) = 3
    /\ Len(response.result.value) = 2
    /\ response.result.value[1].percentage = 6667
    /\ response.result.value[2].percentage = 3333

(***************************************************************************)
(* Specification of the diversity calculation: two stored jobs, the        *)
(* second possibly without a row, each of up to MaxSeqs records over two   *)
(* taxonomy strings; job_ids lists of up to MaxIds entries.                *)
(***************************************************************************)
TaxDiv == { SeqRecord(<<"a">>), SeqRecord(<<"b">>) }

IdParams == {Join(ids, <<",">>) : ids \in SeqsUpTo(JobIds, MaxIds) \ {<<>>}}

InitDiv ==
    /\ \E sa \in SeqsUpTo(TaxDiv, MaxSeqs) :
       \E rb \in {Row(sFile, sb) : sb \in SeqsUpTo(TaxDiv, MaxSeqs)} \cup {NoRow} :
          store = [j \in JobIds |-> IF j = jobA THEN Row(sFile, sa) ELSE rb]
    /\ db = "connected"
    /\ reachable = TRUE
    /\ response = Idle
    /\ previous = Idle
    /\ requests = NoRequests

NextDiv ==
    \/ \E fe \in FrontEnds, ids \in IdParams : get_diversity(fe, ids)
    \/ Deliver

SpecDiv == InitDiv /\ [][NextDiv]_vars

(***************************************************************************)
(* Specification of the error mapping of the job-id endpoints: a store     *)
(* that may stop answering, a front end whose db may be None, a job id     *)
(* with a row, with a row whose analysis_result is null, or without one.   *)
(***************************************************************************)
TaxHttp == { SeqRecord(sBacteria), SeqRecord(sBacteria \o <<";","a">>) }

InitHttp ==
    /\ \E ra \in {Row(sFile, sa) : sa \in SeqsUpTo(TaxHttp, MaxSeqs)}
                   \cup {RowNullResult(sFile), NoRow} :
          store = [j \in JobIds |-> IF j = jobA THEN ra ELSE NoRow]
    /\ db \in {"connected", "none"}
    /\ reachable = TRUE
    /\ response = Idle
    /\ previous = Idle
    /\ requests = NoRequests

NextHttp ==
    \/ \E fe \in FrontEnds : get_composition(fe, jobA, RankNames[2])
    \/ \E fe \in FrontEnds : get_hierarchy(fe, jobA)
    \/ \E fe \in FrontEnds : get_sankey(fe, jobA)
    \/ \E fe \in FrontEnds : get_job(fe, jobA)
    \/ StoreOutage
    \/ StoreRecovery
    \/ DeliverAndRemember

SpecHttp == InitHttp /\ [][NextHttp]_vars

(***************************************************************************)
(* Properties of the diversity calculation.                                *)
(***************************************************************************)
DiversityReturned == FunctionReturned("diversity")

DiversityCalled ==
    /\ response.kind = "done"
    /\ response.endpoint = "diversity"
    /\ response.called

\* a_ik: how many records of the i-th resolved job carry the taxonomy string
Abundance(i, taxon) ==
    LET sequences == store[ResolvedIds[i]].sequences
    IN  Cardinality({k \in 1..Len(sequences) : TaxonomyOf(sequences[k]) = taxon})

ResolvedTaxa ==
    SortedList(UNION {{TaxonomyOf(store[ResolvedIds[i]].sequences[k]) :
                          k \in 1..Len(store[ResolvedIds[i]].sequences)} :
                      i \in 1..Len(ResolvedIds)})

DiffSum(i, j) ==
    SumSeq([t \in 1..Len(ResolvedTaxa) |->
               Abs(Abundance(i, ResolvedTaxa[t]) - Abundance(j, ResolvedTaxa[t]))])

TotalSum(i, j) ==
    SumSeq([t \in 1..Len(ResolvedTaxa) |->
               Abundance(i, ResolvedTaxa[t]) + Abundance(j, ResolvedTaxa[t])])

\* C7 as stated: the returned dissimilarity matrix is symmetric with a zero
\* diagonal: d(i,i) = 0 and d(i,j) = d(j,i) for all i, j, where d(i,j) is
\* sum |a_ik - a_jk| / sum (a_ik + a_jk).
C7_SymmetricZeroDiagonal ==
    DiversityReturned =>
        LET d == response.result.value.dissimilarity_matrix
        IN  \A i, j \in 1..Len(d) :
              /\ FloatEq(d[i][i], Frac(0, 1))
              /\ FloatEq(d[i][j], d[j][i])
              /\ (i # j /\ TotalSum(i, j) > 0)
                    => FloatEq(d[i][j], Frac(DiffSum(i, j), TotalSum(i, j)))

\* C8 as stated: every entry of the returned dissimilarity matrix is a
\* defined number in [0,1], also for samples without sequence records, and
\* the matching similarity entry equals 1 minus it.
C8_DefinedWithinUnitInterval ==
    DiversityReturned =>
        LET d   == response.result.value.dissimilarity_matrix
            sim == response.result.value.similarity_matrix
        IN  \A i, j \in 1..Len(d) :
              /\ FloatLeq(Frac(0, 1), d[i][j])
              /\ FloatLeq(d[i][j], Frac(1, 1))
              /\ FloatEq(sim[i][j], Frac(d[i][j].den - d[i][j].num, d[i][j].den))

\* the exceptions that are not raised by the formatter itself
LibraryExceptions == {ConnectError, AttributeError, PCAValueError}

\* fewer than two samples resolved, or an abundance matrix without a
\* non-zero entry
DegenerateInput ==
    \/ Len(ResolvedIds) < 2
    \/ \A i \in 1..Len(ResolvedIds) : store[ResolvedIds[i]].sequences = <<>>

\* C9 as stated: with fewer than two resolved samples or an all-zero
\* abundance matrix calculate_beta_diversity fails with a descriptive error
\* of its own: it returns no result and propagates no library exception.
C9_DegenerateFailsDescriptively ==
    (DiversityCalled /\ DegenerateInput) =>
        /\ response.result.raised
        /\ response.result.exc \notin LibraryExceptions

(***************************************************************************)
(* Properties of the error mapping.                                        *)
(***************************************************************************)
\* C10 as stated: on every read endpoint that takes a job_id, an absent
\* job_id, an unavailable store and a computation failure reach the caller
\* with pairwise different HTTP statuses.
C10_DistinguishableErrorKinds ==
    ( /\ response.kind = "done"
      /\ previous.kind = "done"
      /\ previous.frontend = response.frontend
      /\ previous.endpoint = response.endpoint
      /\ Cause # "none"
      /\ previous.cause # "none"
      /\ previous.cause # Cause )
    => previous.status # response.status

(***************************************************************************)
(* Specification of the multi-job operations: two stored jobs, the second  *)
(* possibly without a row and under the same or another filename; heatmap  *)
(* and diversity requests over job_ids lists of up to MaxIds entries.      *)
(***************************************************************************)
sFileB == <<"t",".","f","a">>

InitMulti ==
    /\ \E sa \in SeqsUpTo(TaxDiv, MaxSeqs) :
       \E rb \in {Row(f, sb) : f \in {sFile, sFileB}, sb \in SeqsUpTo(TaxDiv, MaxSeqs)}
                   \cup {NoRow} :
          store = [j \in JobIds |-> IF j = jobA THEN Row(sFile, sa) ELSE rb]
    /\ db = "connected"
    /\ reachable = TRUE
    /\ response = Idle
    /\ previous = Idle
    /\ requests = NoRequests

NextMulti ==
    \/ \E fe \in FrontEnds, ids \in IdParams : get_heatmap(fe, ids, RankNames[1])
    \/ \E fe \in FrontEnds, ids \in IdParams : get_diversity(fe, ids)
    \/ Deliver

SpecMulti == InitMulti /\ [][NextMulti]_vars

(***************************************************************************)
(* Properties of the multi-job operations.                                 *)
(***************************************************************************)
\* the db call of a heatmap or diversity request was made
MultiJobCalled ==
    /\ response.kind = "done"
    /\ response.endpoint \in {"heatmap", "diversity"}
    /\ response.called

\* some requested job id has no row in the store
SomeIdAbsent ==
    \E i \in 1..Len(response.job_ids) :
        ~(response.job_ids[i] \in DOMAIN store /\ store[response.job_ids[i]].present)

\* C11 as stated: when a requested job_id is absent from the store,
\* get_heatmap_data and calculate_beta_diversity raise an error; they never
\* return a result computed over only the job_ids that were found.
C11_AbsentIdRaises ==
    (MultiJobCalled /\ SomeIdAbsent) => response.result.raised

(***************************************************************************)
(* Properties of the aggregation over jobs without sequence records.       *)
(***************************************************************************)
\* the db call of the answered request was made
FunctionCalled(endpoint) ==
    /\ response.kind = "done"
    /\ response.endpoint = endpoint
    /\ response.called

\* at least one requested job id has a row, and every row that is read
\* holds an analysis result with zero sequence records
OnlyEmptyJobs ==
    /\ Len(ResolvedIds) >= 1
    /\ \A i \in 1..Len(ResolvedIds) :
          /\ ~store[ResolvedIds[i]].null_result
          /\ store[ResolvedIds[i]].sequences = <<>>

\* C12: for a stored job whose analysis result holds zero sequence records
\* get_taxonomic_composition returns the empty list without raising, and
\* get_heatmap_data over such jobs returns without raising, with an empty
\* taxa list and one empty row per sample.
C12_EmptyJobsGiveEmptyResults ==
    /\ (FunctionCalled("composition") /\ OnlyEmptyJobs) =>
          /\ ~response.result.raised
          /\ response.result.value = <<>>
    /\ (FunctionCalled("heatmap") /\ OnlyEmptyJobs) =>
          /\ ~response.result.raised
          /\ response.result.value.taxa = <<>>
          /\ Len(response.result.value.samples) = Len(ResolvedIds)
          /\ Len(response.result.value.matrix) = Len(response.result.value.samples)
          /\ \A i \in 1..Len(response.result.value.matrix) :
                response.result.value.matrix[i] = <<>>

\* C12 witness: a composition request answered for a job that has a row
\* with zero sequence records.
C12_Witness ==
    /\ FunctionCalled("composition")
    /\ OnlyEmptyJobs
    /\ response.status = 200
    /\ response.result.value = <<>>

(***************************************************************************)
(* POST /analyze of backend/main_with_db.py, and GET /jobs.                *)
(***************************************************************************)
\* allowed_extensions = ['.fasta', '.fa', '.fastq', '.fq', '.txt']
AllowedExtensions == { <<".","f","a","s","t","a">>, <<".","f","a">>,
                       <<".","f","a","s","t","q">>, <<".","f","q">>,
                       <<".","t","x","t">> }

\* os.path.splitext(name)[1]: from the last dot on, empty when the name has
\* no dot or only leading dots
SplitExt(name) ==
    LET dots == {i \in 1..Len(name) : name[i] = "."}
        last == CHOOSE i \in dots : \A k \in dots : k <= i
    IN  IF dots = {} \/ (\A i \in 1..(last - 1) : name[i] = ".") THEN <<>>
        ELSE SubSeq(name, last, Len(name))

\* parsed_metadata after `if metadata: try json.loads(metadata) except
\* JSONDecodeError`: None for no form field, an empty string or text that is
\* no JSON; otherwise the parsed value, which may be falsy ("{}")
ParseMetadata(metadata) ==
    IF metadata \in {"absent", "empty", "malformed"} THEN [none |-> TRUE, truthy |-> FALSE]
    ELSE IF metadata = "empty_object" THEN [none |-> FALSE, truthy |-> FALSE]
    ELSE [none |-> FALSE, truthy |-> TRUE]

\* result_data after the processing time and the user metadata are added
AddMetadata(result_data, parsed_metadata) ==
    IF result_data.metadata.present
    THEN [result_data EXCEPT !.metadata.processingTime = TRUE,
                             !.metadata.userMetadata = parsed_metadata.truthy]
    ELSE IF parsed_metadata.truthy
    THEN [result_data EXCEPT !.metadata =
             [present |-> TRUE, processingTime |-> TRUE, userMetadata |-> TRUE]]
    ELSE result_data

\* what pipeline.process_file returns: sequence records, with or without a
\* "metadata" dict
PipelineResult(sequences, has_metadata) ==
    [sequences |-> sequences,
     metadata |-> [present |-> has_metadata, processingTime |-> FALSE, userMetadata |-> FALSE]]

NoStoreMethodError == "AttributeError: 'TaxaformerDB' object has no attribute 'store_analysis'"
PipelineError == "Exception raised by pipeline.process_file"

\* the job store's store(filename, metadata, result) -> job_id, inserting
\* the row under the fresh id job_id: [raised, exc, value, store]
store_analysis(job_id, filename, analysis_result) ==
    IF ~reachable THEN Raised(ConnectError) @@ [store |-> store]
    ELSE Returned(job_id) @@
         [store |-> [store EXCEPT ![job_id] = Row(filename, analysis_result.sequences)]]

\* the outcomes of db.store_analysis(...) in analyze_endpoint: the class
\* TaxaformerDB of db/supabase_db.py has no such method, so on it the call
\* raises AttributeError; on a db object that has the store operation it is
\* store_analysis with an id the store has not used
StoreOutcomes(filename, analysis_result) ==
    {Raised(NoStoreMethodError) @@ [store |-> store]} \cup
    {store_analysis(j, filename, analysis_result) : j \in {i \in JobIds : ~store[i].present}}

\* the upload as the handler sees it, and the fields every answer carries
AnalyzeRequest(filename, metadata) ==
    [kind |-> "done", frontend |-> "main_with_db", endpoint |-> "analyze",
     job_ids |-> <<>>, rank |-> <<>>, filename |-> filename, metadata |-> metadata]

\* AnalyzeResponse adding the "job_id" key whatever job_id is
AnalyzeResponseAlwaysJobId(request, result_data, stored) ==
    request @@
    [called |-> db # "none",
     result |-> [raised |-> stored.raised, exc |-> stored.exc, value |-> stored.value],
     status |-> 200, error_from |-> "", pipeline |-> "returned",
     body |-> [status |-> "success", data |-> result_data,
               has_job_id |-> TRUE,
               job_id |-> IF ~stored.raised THEN stored.value ELSE <<>>]]

\* response = {"status": "success", "data": result_data}, and
\* `if job_id: response["job_id"] = job_id`, where job_id is None unless
\* the store call returned; `result` is the outcome of the store call
AnalyzeResponse(request, result_data, stored) ==
    request @@
    [called |-> db # "none",
     result |-> [raised |-> stored.raised, exc |-> stored.exc, value |-> stored.value],
     status |-> 200, error_from |-> "", pipeline |-> "returned",
     body |-> [status |-> "success", data |-> result_data,
               has_job_id |-> ~stored.raised /\ stored.value # <<>>,
               job_id |-> IF ~stored.raised THEN stored.value ELSE <<>>]]

\* POST /analyze: HTTPException(400) for an upload without filename or with
\* an extension that is not allowed; any exception of the pipeline is caught
\* and answered with the dict {"status": "error", "message"}; otherwise the
\* result is stored when db is not None, an exception of the store call is
\* caught and printed, and the success response is returned
analyze_endpoint(filename, metadata, processed) ==
    LET parsed_metadata == ParseMetadata(metadata)
        request         == AnalyzeRequest(filename, metadata)
        result_data     == AddMetadata(processed.value, parsed_metadata)
    IN  /\ response = Idle
        /\ IF filename = <<>> \/ ToLower(SplitExt(filename)) \notin AllowedExtensions
           THEN /\ response' = request @@
                       [called |-> FALSE, result |-> NotCalled, status |-> 400,
                        error_from |-> "handler", pipeline |-> "not run",
                        body |-> [status |-> "rejected"]]
                /\ store' = store
           ELSE IF processed.raised
           THEN /\ response' = request @@
                       [called |-> FALSE, result |-> NotCalled, status |-> 200,
                        error_from |-> "", pipeline |-> "raised",
                        body |-> [status |-> "error"]]
                /\ store' = store
           ELSE IF db = "none"
           THEN /\ response' = AnalyzeResponse(request, result_data, NotCalled)
                /\ store' = store
           ELSE \E stored \in StoreOutcomes(filename, result_data) :
                   /\ response' = AnalyzeResponse(request, result_data, stored)
                   /\ store' = stored.store
        /\ UNCHANGED <<db, reachable, previous, requests>>

\* get_all_jobs(limit): id and filename of at most `limit` rows (the newest
\* ones by created_at, which the rows of the model do not carry: any `limit`
\* of them)
get_all_jobs(limit, chosen) ==
    IF ~reachable THEN Raised(ConnectError)
    ELSE Returned({[id |-> j, filename |-> store[j].filename] : j \in chosen})

\* GET /jobs?limit=
list_jobs(fe, limit) ==
    LET present == {j \in JobIds : store[j].present}
    IN  /\ response = Idle
        /\ \E chosen \in SUBSET present :
              /\ Cardinality(chosen) =
                    (IF limit < Cardinality(present) THEN limit ELSE Cardinality(present))
              /\ response' = Respond(fe, "jobs", <<>>, <<>>, get_all_jobs(limit, chosen), TRUE)
        /\ UNCHANGED <<store, db, reachable, previous, requests>>

(***************************************************************************)
(* Specification of the whole REST surface: every endpoint of both front   *)
(* ends, a store that may stop answering, a db that may be None, uploads   *)
(* that are rejected, fail in the pipeline or are analysed and stored.     *)
(***************************************************************************)
UploadNames == { <<>>, sFile, <<"S",".","F","A">>, <<"s",".","c","s","v">>, <<"s">> }

MetadataInputs == {"absent", "malformed", "empty_object", "object"}

PipelineOutcomes ==
    {Raised(PipelineError)} \cup
    {Returned(PipelineResult(seqs, m)) :
        seqs \in {<<>>, <<SeqRecord(sBacteria)>>}, m \in BOOLEAN}

InitApi ==
    /\ \E ra \in {Row(sFile, sa) : sa \in SeqsUpTo(TaxHttp, MaxSeqs)}
                   \cup {RowNullResult(sFile), NoRow} :
          store = [j \in JobIds |-> IF j = jobA THEN ra ELSE NoRow]
    /\ db \in {"connected", "none"}
    /\ reachable = TRUE
    /\ response = Idle
    /\ previous = Idle
    /\ requests = NoRequests

NextApi ==
    \/ \E f \in UploadNames, m \in MetadataInputs, p \in PipelineOutcomes :
          analyze_endpoint(f, m, p)
    \/ \E fe \in FrontEnds, j \in JobIds : get_composition(fe, j, RankNames[2])
    \/ \E fe \in FrontEnds, j \in JobIds : get_hierarchy(fe, j)
    \/ \E fe \in FrontEnds, j \in JobIds : get_sankey(fe, j)
    \/ \E fe \in FrontEnds, ids \in RankIdParams : get_heatmap(fe, ids, RankNames[1])
    \/ \E fe \in FrontEnds, ids \in RankIdParams : get_diversity(fe, ids)
    \/ \E fe \in FrontEnds, limit \in {1, 50} : list_jobs(fe, limit)
    \/ \E fe \in FrontEnds, j \in JobIds : get_job(fe, j)
    \/ StoreOutage
    \/ StoreRecovery
    \/ Deliver

SpecApi == InitApi /\ [][NextApi]_vars

(***************************************************************************)
(* Properties of the REST surface.                                         *)
(***************************************************************************)
\* the answered request failed: it has no success status, or its body
\* reports an error
RequestFailed ==
    /\ response.kind = "done"
    /\ \/ response.status # 200
       \/ response.endpoint = "analyze" /\ response.body.status = "error"

\* C13 as stated: every failing request on every endpoint of both front
\* ends, POST /analyze included, is answered with HTTP status 404, 500 or
\* 503 and a detail string (an HTTPException of the handler); no failure has
\* another status or sits inside a success-status body.
C13_FailuresAre404Or500Or503 ==
    RequestFailed =>
        /\ response.status \in {404, 500, 503}
        /\ response.error_from = "handler"

(***************************************************************************)
(* Two read requests in flight on one front end.  A route handler is an    *)
(* `async def` without an await: it runs from its first line to its return *)
(* in one step of the event loop, between the arrival of the requests and  *)
(* the sending of their responses, in either order.                        *)
(***************************************************************************)
\* RequestParams taking the parameters from the request that arrived last
\* (the path parameter kept in a module-level variable)
RequestParamsShared(s) ==
    IF \E o \in Slots \ {s} : requests[o].kind = "pending"
    THEN requests[CHOOSE o \in Slots \ {s} : requests[o].kind = "pending"]
    ELSE requests[s]

\* the arguments of the handler call that serves the request of slot s: the
\* path and query parameters of that request
RequestParams(s) == requests[s]

\* the handler of the endpoint, from its arguments to its answer
HandlerAnswer(req) ==
    CASE req.endpoint = "composition" ->
             Respond(req.frontend, "composition", <<req.param>>, req.rank,
                     get_taxonomic_composition(req.param, req.rank), TRUE)
      [] req.endpoint = "hierarchy" ->
             Respond(req.frontend, "hierarchy", <<req.param>>, <<>>,
                     get_hierarchical_data(req.param), TRUE)
      [] req.endpoint = "sankey" ->
             Respond(req.frontend, "sankey", <<req.param>>, <<>>,
                     get_sankey_data(req.param), TRUE)
      [] req.endpoint = "heatmap" ->
             Respond(req.frontend, "heatmap", Split(req.param, ","), req.rank,
                     get_heatmap_data(Split(req.param, ","), req.rank), TRUE)
      [] req.endpoint = "diversity" ->
             Respond(req.frontend, "diversity", Split(req.param, ","), <<>>,
                     calculate_beta_diversity(Split(req.param, ",")),
                     DiversityJsonOk(calculate_beta_diversity(Split(req.param, ","))))

\* a request arrives on a free connection
Arrive(s, fe, endpoint, param, rank) ==
    /\ requests[s] = Idle
    /\ \A o \in Slots : requests[o] # Idle => requests[o].frontend = fe
    /\ requests' = [requests EXCEPT ![s] =
                       [kind |-> "pending", frontend |-> fe, endpoint |-> endpoint,
                        param |-> param, rank |-> rank]]
    /\ UNCHANGED <<store, db, reachable, response, previous>>

\* the event loop runs the handler of a pending request
Serve(s) ==
    /\ requests[s].kind = "pending"
    /\ requests' = [requests EXCEPT ![s] =
                       [kind |-> "served", frontend |-> requests[s].frontend,
                        endpoint |-> requests[s].endpoint, param |-> requests[s].param,
                        rank |-> requests[s].rank,
                        answer |-> HandlerAnswer(RequestParams(s))]]
    /\ UNCHANGED <<store, db, reachable, response, previous>>

\* the response of a served request is sent and the connection is free
Send(s) ==
    /\ requests[s].kind = "served"
    /\ requests' = [requests EXCEPT ![s] = Idle]
    /\ UNCHANGED <<store, db, reachable, response, previous>>

\* the stored results of the two jobs
ConcResultsA == { <<>>, <<SeqRecord(sBacteria)>>,
                  <<SeqRecord(sBacteria), SeqRecord(sBacteria \o <<";","a">>)>> }

ConcResultsB == { <<SeqRecord(sEukaryota)>>,
                  <<SeqRecord(sEukaryota \o <<";","a">>), SeqRecord(sBacteria)>> }

\* the path or query parameter of each read endpoint
ConcRequests ==
    ({"composition", "hierarchy", "sankey"} \X {jobA, jobB}) \cup
    ({"heatmap"} \X {jobA, jobB, jobA \o <<",">> \o jobB}) \cup
    ({"diversity"} \X {jobA \o <<",">> \o jobB, jobB \o <<",">> \o jobB})

InitConc ==
    /\ \E sa \in ConcResultsA, sb \in ConcResultsB :
          store = [j \in JobIds |-> IF j = jobA THEN Row(sFile, sa) ELSE Row(sFileB, sb)]
    /\ db = "connected"
    /\ reachable = TRUE
    /\ response = Idle
    /\ previous = Idle
    /\ requests = NoRequests

NextConc ==
    \/ \E s \in Slots, fe \in FrontEnds, r \in ConcRequests :
          Arrive(s, fe, r[1], r[2], RankNames[1])
    \/ \E s \in Slots : Serve(s)
    \/ \E s \in Slots : Send(s)

SpecConc == InitConc /\ [][NextConc]_vars

(***************************************************************************)
(* Properties of concurrent reads.                                         *)
(***************************************************************************)
\* the answer the request of slot s gets when it is the only request: the
\* handler run on its parameters against the store as it is
AnswerAlone(s) ==
    HandlerAnswer([frontend |-> requests[s].frontend, endpoint |-> requests[s].endpoint,
                   param |-> requests[s].param, rank |-> requests[s].rank])

TestTaxonomies ==
    << <<"E","u","k","a","r","y","o","t","a",";"," ","A","l","v","e","o","l","a","t","a",";"," ","D","i","n","o","f","l","a","g","e","l","l","a","t","a",";"," ","G","y","m","n","o","d","i","n","i","a","l","e","s">>,
       <<"E","u","k","a","r","y","o","t","a",";"," ","C","h","l","o","r","o","p","h","y","t","a",";"," ","C","h","l","o","r","o","p","h","y","c","e","a","e",";"," ","C","h","l","a","m","y","d","o","m","o","n","a","d","a","l","e","s">>,
       <<"E","u","k","a","r","y","o","t","a",";"," ","M","e","t","a","z","o","a",";"," ","A","r","t","h","r","o","p","o","d","a",";"," ","C","o","p","e","p","o","d","a">>,
       <<"E","u","k","a","r","y","o","t","a",";"," ","R","h","o","d","o","p","h","y","t","a",";"," ","F","l","o","r","i","d","e","o","p","h","y","c","e","a","e",";"," ","C","e","r","a","m","i","a","l","e","s">>,
       <<"E","u","k","a","r","y","o","t","a",";"," ","F","u","n","g","i",";"," ","A","s","c","o","m","y","c","o","t","a",";"," ","S","a","c","c","h","a","r","o","m","y","c","e","t","a","l","e","s">> >>

\* filename="test_sample.fasta"
sTestSample == <<"t","e","s","t","_","s","a","m","p","l","e",".","f","a","s","t","a">>

\* the analysis results that are stored: the test's records, or some of
\* them, in any order and without repetition
TestResults ==
    {[i \in 1..Len(order) |-> SeqRecord(TestTaxonomies[order[i]])] :
        order \in {o \in SeqsUpTo(1..Len(TestTaxonomies), Len(TestTaxonomies)) :
                      o # <<>> /\ \A i, k \in 1..Len(o) : o[i] = o[k] => i = k}}

\* job_id = db.store_analysis(filename=..., metadata=..., analysis_result=...)
\* on a store without rows
StoreTestResult(result) ==
    /\ response = Idle
    /\ \A j \in JobIds : ~store[j].present
    /\ \E j \in JobIds :
          LET stored == store_analysis(j, sTestSample, [sequences |-> result])
          IN  /\ ~stored.raised
              /\ store' = stored.store
    /\ UNCHANGED <<db, reachable, response, previous, requests>>

InitE2E ==
    /\ store = [j \in JobIds |-> NoRow]
    /\ db = "connected"
    /\ reachable = TRUE
    /\ response = Idle
    /\ previous = Idle
    /\ requests = NoRequests

NextE2E ==
    \/ \E result \in TestResults : StoreTestResult(result)
    \/ \E fe \in FrontEnds, j \in JobIds : get_composition(fe, j, RankNames[2])
    \/ \E fe \in FrontEnds, j \in JobIds : get_hierarchy(fe, j)
    \/ Deliver

SpecE2E == InitE2E /\ [][NextE2E]_vars

(***************************************************************************)
(* Properties of the end-to-end run.                                       *)
(***************************************************************************)
\* the job of the answered request holds five sequence records whose
\* lineages all start with "Eukaryota" and have pairwise distinct phyla
FiveEukaryotaPhyla ==
    /\ response.kind = "done"
    /\ response.called
    /\ ~response.result.raised
    /\ Len(RequestedLineages) = 5
    /\ \A i \in 1..5 : /\ Len(RequestedLineages[i]) >= 2
                       /\ RequestedLineages[i][1] = sEukaryota
    /\ \A i, k \in 1..5 : RequestedLineages[i][2] = RequestedLineages[k][2] => i = k

\* the composition is five entries, one per phylum, each with value 1 and
\* percentage 20.0 (2000 hundredths)
FiveEntriesOfTwentyPercent ==
    LET body == response.result.value
    IN  /\ Len(body) = 5
        /\ {body[i].name : i \in 1..5} = {RequestedLineages[i][2] : i \in 1..5}
        /\ \A i \in 1..5 : body[i].value = 1 /\ body[i].percentage = 2000

IsPrefix(p, l) == Len(p) <= Len(l) /\ SubSeq(l, 1, Len(p)) = p

\* no stored lineage goes on below the label path p
NoFinerClassification(p) ==
    \A i \in 1..Len(RequestedLineages) :
        IsPrefix(p, RequestedLineages[i]) => RequestedLineages[i] = p

\* C16 as stated: every leaf node of the returned structure reports its
\* children as null, never as an empty list, and every node that reports a
\* children list reports a non-empty one.
C16_NoEmptyChildrenList ==
    HierarchyReturned =>
        /\ \A e \in HierarchyNodes(response.result.value) :
              /\ NoFinerClassification(e.path) => e.node.children.null
              /\ ~e.node.children.null => e.node.children.items # <<>>
        /\ ~response.result.value.children.null
              => response.result.value.children.items # <<>>

\* C16 amended: every node below the root reports its children as null
\* exactly when no stored lineage goes on below it, and as a non-empty list
\* otherwise; the root "Life" always reports a list, which is empty exactly
\* when the job has no sequence records.
C16_NoEmptyChildrenListBelowRoot ==
    HierarchyReturned =>
        /\ \A e \in HierarchyNodes(response.result.value) :
              /\ NoFinerClassification(e.path) <=> e.node.children.null
              /\ ~e.node.children.null => e.node.children.items # <<>>
        /\ ~response.result.value.children.null
        /\ response.result.value.children.items = <<>> <=> RequestedSequences = <<>>

\* C16 witness: a returned hierarchy with a leaf below a node that has
\* children.
C16_Witness ==
    /\ HierarchyReturned
    /\ \E e \in HierarchyNodes(response.result.value) :
          /\ Len(e.path) >= 2
          /\ e.node.children.null
          /\ NoFinerClassification(e.path)

(***************************************************************************)
(* Properties of the flow window.                                          *)
(***************************************************************************)
\* "Start" and the first four labels of a parsed lineage
FlowWindow(lineage) ==
    <<sStart>> \o SubSeq(lineage, 1, IF Len(lineage) < 4 THEN Len(lineage) ELSE 4)

\* the (lineage, position) pairs at which s is immediately followed by t
\* inside the window
FollowedBy(s, t) ==
    {<<i, pos>> \in (1..Len(RequestedLineages)) \X (1..4) :
        /\ pos < Len(FlowWindow(RequestedLineages[i]))
        /\ FlowWindow(RequestedLineages[i])[pos] = s
        /\ FlowWindow(RequestedLineages[i])[pos + 1] = t}

WindowLabels ==
    {sStart} \cup UNION {Range(FlowWindow(RequestedLineages[i])) :
                            i \in 1..Len(RequestedLineages)}

NodeName(nodes, id) == nodes[CHOOSE i \in 1..Len(nodes) : nodes[i].id = id].name

\* C17: get_sankey_data counts edges between consecutive levels of "Start"
\* plus the first four labels only: a lineage of k labels adds min(k,4)
\* edge increments, the value of the link (s,t) is the number of (lineage,
\* position) pairs at which s is immediately followed by t in that window,
\* and a label that occurs only at depth five or deeper is no node.
C17_FlowsWithinWindow ==
    SankeyReturned =>
        LET nodes == response.result.value.nodes
            links == response.result.value.links
        IN  /\ SumSeq([i \in 1..Len(links) |-> links[i].value]) =
                  SumSeq([i \in 1..Len(RequestedLineages) |->
                             IF Len(RequestedLineages[i]) < 4
                             THEN Len(RequestedLineages[i]) ELSE 4])
            /\ \A i \in 1..Len(links) :
                  links[i].value =
                      Cardinality(FollowedBy(NodeName(nodes, links[i].source),
                                             NodeName(nodes, links[i].target)))
            /\ \A i, k \in 1..Len(links) :
                  (links[i].source = links[k].source /\ links[i].target = links[k].target)
                      => i = k
            /\ \A s, t \in WindowLabels :
                  FollowedBy(s, t) # {} =>
                      \E i \in 1..Len(links) : /\ NodeName(nodes, links[i].source) = s
                                               /\ NodeName(nodes, links[i].target) = t
            /\ NodeNames(nodes) = WindowLabels

\* C17 witness: a flow diagram returned for a job with a lineage of six
\* labels, whose fifth and sixth label are no nodes.
C17_Witness ==
    /\ SankeyReturned
    /\ \E i \in 1..Len(RequestedLineages) :
          /\ Len(RequestedLineages[i]) = 6
          /\ RequestedLineages[i][4] \in NodeNames(response.result.value.nodes)
          /\ RequestedLineages[i][5] \notin NodeNames(response.result.value.nodes)
          /\ RequestedLineages[i][6] \notin NodeNames(response.result.value.nodes)

(***************************************************************************)
(* Properties of the counts along the label paths.                         *)
(***************************************************************************)
\* the stored lineages whose first labels are exactly the label path p
LineagesThrough(p) ==
    {i \in 1..Len(RequestedLineages) : IsPrefix(p, RequestedLineages[i])}

\* the non-empty label paths that start a stored lineage
LineagePrefixes ==
    UNION {{SubSeq(RequestedLineages[i], 1, d) : d \in 1..Len(RequestedLineages[i])} :
              i \in 1..Len(RequestedLineages)}

\* C18: the value of the node reached by the label path (l1, ..., ld) is
\* the number of input lineages whose first d labels are exactly l1, ...,
\* ld: each lineage increments every node on its path once, intermediate
\* ranks included, and no other node; a label path has one node.
C18_ValueCountsLineagesThroughPath ==
    HierarchyReturned =>
        LET nodes == HierarchyNodes(response.result.value)
        IN  /\ \A e \in nodes : e.node.value = Cardinality(LineagesThrough(e.path))
            /\ {e.path : e \in nodes} = LineagePrefixes
            /\ \A e, f \in nodes : e.path = f.path => e = f

\* C18 witness: a returned hierarchy with a node at depth two or deeper that
\* two lineages pass through, one of them going on below it.
C18_Witness ==
    /\ HierarchyReturned
    /\ \E e \in HierarchyNodes(response.result.value) :
          /\ Len(e.path) >= 2
          /\ e.node.value = 2
          /\ ~e.node.children.null

(***************************************************************************)
(* Properties of the heatmap rows.                                         *)
(***************************************************************************)
\* C19 as stated: the matrix has one row per entry of samples, in the same
\* order, and row i holds the per-taxon counts, over the sorted taxa list,
\* of the i-th resolved job, so that row i sums to that job's number of
\* sequence records; also when two requested jobs have the same filename.
C19_RowPerResolvedJob ==
    HeatmapReturned =>
        LET body == response.result.value
            idx  == HeatmapIdx(response.rank)
        IN  /\ Len(body.samples) = Len(ResolvedIds)
            /\ Len(body.matrix) = Len(body.samples)
            /\ \A i \in 1..Len(body.samples) :
                  body.samples[i] = store[ResolvedIds[i]].filename
            /\ \A i \in 1..(Len(body.taxa) - 1) : StrLess(body.taxa[i], body.taxa[i + 1])
            /\ \A i \in 1..Len(ResolvedIds) :
                  /\ Len(body.matrix[i]) = Len(body.taxa)
                  /\ \A t \in 1..Len(body.taxa) :
                        body.matrix[i][t] =
                            ExpectedCount(store[ResolvedIds[i]].sequences, idx, body.taxa[t])
                  /\ SumSeq(body.matrix[i]) = Len(store[ResolvedIds[i]].sequences)

(***************************************************************************)
(* Properties of POST /analyze.                                            *)
(***************************************************************************)
\* an upload was accepted and the pipeline returned its result
AnalyzedUpload ==
    /\ response.kind = "done"
    /\ response.endpoint = "analyze"
    /\ response.pipeline = "returned"

\* C20: whenever the pipeline succeeds on an accepted file the response of
\* POST /analyze is {status: "success", data} whatever becomes of the
\* persistence: a failing store operation never makes it an error, and
\* job_id is in the response exactly when the database is available and the
\* store operation returned a job id.
C20_SuccessWhateverPersistence ==
    AnalyzedUpload =>
        /\ response.status = 200
        /\ response.body.status = "success"
        /\ "data" \in DOMAIN response.body
        /\ response.body.has_job_id <=>
              (db # "none" /\ response.called /\ ~response.result.raised
                 /\ response.result.value \in JobIds)
        /\ response.body.has_job_id => response.body.job_id = response.result.value

\* C20 witness: the database is available, the store operation fails, and
\* the analysis is answered as a success without job_id.
C20_Witness ==
    /\ AnalyzedUpload
    /\ db # "none"
    /\ response.called
    /\ response.result.raised
    /\ response.body.status = "success"
    /\ ~response.body.has_job_id

====
